---- MODULE Spec2Model ----
(***************************************************************************)
(* Babble-and-Prune (src/main.py): a Generator ("Babble") proposes a       *)
(* candidate, an Evaluator ("Prune") scores it, and main() repeats the     *)
(* round until a score reaches target_score or max_attempts is used up.    *)
(*                                                                         *)
(* Texts are sequences of tokens.  A token is one lexical unit of the      *)
(* response text: a word, a newline, a code fence (three backticks), the   *)
(* language tag json, an opening or closing brace, a JSON member            *)
(* ("key": value, with its separating comma), or a JSON key that is         *)
(* followed by a nested object.  Scores are kept in tenths: 75 is 7.5.     *)
(***************************************************************************)
EXTENDS Integers, Sequences, FiniteSets, TLC

VARIABLES
    \* main()
    pc, attempt, babble_response, evaluation,
    best_response, best_evaluation, best_score,
    best_round, attempts, calls, outcome, fault, report,
    \* prune_agent's extraction step, applied to one raw text
    xpc, raw, result, again,
    \* call_openai_api's loop over response.iter_lines()
    spc, status, lines, idx, full_response, displayed, retval

mainVars == <<pc, attempt, babble_response, evaluation, best_response,
              best_evaluation, best_score, best_round, attempts, calls, outcome,
              fault, report>>
extractVars == <<xpc, raw, result, again>>
streamVars == <<spc, status, lines, idx, full_response, displayed, retval>>
vars == <<mainVars, extractVars, streamVars>>

----------------------------------------------------------------------------
(* Bounds of the model.                                                    *)

MaxLen == 4          \* longest raw text enumerated token by token
MaxPairs == 2        \* most members in an enumerated record
MaxLines == 4        \* longest enumerated response stream

(* Program constants (tenths for the score).                               *)
target_score == 75
max_attempts == 5

----------------------------------------------------------------------------
(* Tokens and JSON values.                                                 *)

\* A JSON value as Python's json.loads yields it: t is its kind, n its number
\* in tenths.  "num" int or float, "bool" True/False (n = 10 or 0, since
\* True == 1), "nan" float('nan'), "str", "null", "obj" a nested dict, and
\* "deep" a value nested beyond the interpreter's recursion limit.
Val(t, n) == [t |-> t, n |-> n]
Num(n) == Val("num", n)

Tok(c) == [c |-> c, k |-> "", t |-> "", n |-> 0]
W == Tok("word")
NL == Tok("nl")
FENCE == Tok("fence")
JSONTAG == Tok("json")
LB == Tok("lb")
RB == Tok("rb")
\* "k": v as one token
Pair(k, v) == [c |-> "pair", k |-> k, t |-> v.t, n |-> v.n]
\* "k": in front of a nested object
Key(k) == [c |-> "key", k |-> k, t |-> "", n |-> 0]

IsSpace(tok) == tok.c = "nl"

----------------------------------------------------------------------------
(* String operations of Python used by prune_agent and call_openai_api.    *)

RECURSIVE LStrip(_)
LStrip(s) == IF s # <<>> /\ IsSpace(Head(s)) THEN LStrip(Tail(s)) ELSE s

RECURSIVE RStrip(_)
RStrip(s) ==
    IF s # <<>> /\ IsSpace(s[Len(s)]) THEN RStrip(SubSeq(s, 1, Len(s) - 1)) ELSE s

\* str.strip()
Strip(s) == RStrip(LStrip(s))

\* str.startswith / str.endswith
StartsWith(s, p) == Len(s) >= Len(p) /\ SubSeq(s, 1, Len(p)) = p
EndsWith(s, p) == Len(s) >= Len(p) /\ SubSeq(s, Len(s) - Len(p) + 1, Len(s)) = p

\* The places where the separator '{\n' occurs in s.
DelimiterAt(s) == {i \in 1..(Len(s) - 1) : s[i].c = "lb" /\ s[i + 1].c = "nl"}

----------------------------------------------------------------------------
(* json.loads on a token text that starts with an opening brace.           *)

\* Whitespace between JSON tokens is insignificant.
NoSpace(s) == SelectSeq(s, LAMBDA tok : ~IsSpace(tok))

\* The position after the brace that closes the object whose members start
\* at i; 0 for a syntax error (json.JSONDecodeError), -1 when the scanner
\* meets a value nested beyond the recursion limit first (RecursionError).
RECURSIVE Members(_, _)
Members(w, i) ==
    IF i > Len(w) THEN 0
    ELSE IF w[i].c = "rb" THEN i + 1
    ELSE IF w[i].c = "pair" THEN (IF w[i].t = "deep" THEN -1 ELSE Members(w, i + 1))
    ELSE IF w[i].c = "key" /\ i < Len(w) /\ w[i + 1].c = "lb"
         THEN LET j == Members(w, i + 2) IN IF j <= 0 THEN j ELSE Members(w, j)
    ELSE 0

\* The members of the outermost object, in textual order.
RECURSIVE TopItems(_, _)
TopItems(w, i) ==
    IF i > Len(w) \/ w[i].c = "rb" THEN <<>>
    ELSE IF w[i].c = "pair"
         THEN <<[k |-> w[i].k, v |-> Val(w[i].t, w[i].n)]>> \o TopItems(w, i + 1)
    ELSE <<[k |-> w[i].k, v |-> Val("obj", 0)]>> \o TopItems(w, Members(w, i + 2))

\* A dict keeps a key at the place of its first insertion and the value of
\* its last one.
RECURSIVE KeyOrder(_)
KeyOrder(items) ==
    IF items = <<>> THEN <<>>
    ELSE LET front == KeyOrder(SubSeq(items, 1, Len(items) - 1))
             k == items[Len(items)].k
         IN IF \E i \in 1..Len(front) : front[i] = k THEN front ELSE Append(front, k)

LastValue(items, k) ==
    LET at == {i \in 1..Len(items) : items[i].k = k}
    IN items[CHOOSE i \in at : \A j \in at : j <= i].v

NoFields == [k \in {} |-> Num(0)]

json_loads(s) ==
    LET w == NoSpace(s)
        j == IF Len(w) >= 1 /\ w[1].c = "lb" THEN Members(w, 2) ELSE 0
        items == TopItems(w, 2)
        keys == KeyOrder(items)
    IN IF j = -1 THEN [exc |-> "RecursionError", keys |-> <<>>, val |-> NoFields]
       ELSE IF j # Len(w) + 1
            THEN [exc |-> "JSONDecodeError", keys |-> <<>>, val |-> NoFields]
       ELSE [exc |-> "", keys |-> keys,
             val |-> [k \in {keys[i] : i \in 1..Len(keys)} |-> LastValue(items, k)]]

----------------------------------------------------------------------------
(* prune_agent: the steps after the transport call, and                    *)
(* create_error_response.                                                  *)

NineFields ==
    <<"feasibility_score", "character_identity_score", "design_elegance_score",
      "power_level_score", "novelty_score", "purpose_score", "uniqueness_score",
      "adherence_score", "consistency_score">>

\* The keys of the model for which key.endswith('_score') holds.
EndsWithScore(k) ==
    k = "overall_score" \/ \E i \in 1..Len(NineFields) : NineFields[i] = k

Word(text) == [c |-> "word", k |-> text, t |-> "", n |-> 0]
FailedToParse == Word("Failed to parse evaluation. Raw response: ")
FailedToParseJSON == Word("Failed to parse evaluation JSON. Raw response: ")
\* f"Invalid score for {key}: {scores[key]}"
InvalidScoreFor(k, v) == <<Word("Invalid score for "), [c |-> "word", k |-> k, t |-> v.t, n |-> v.n]>>

\* A dict: its keys in order, their values, and the value under 'explanation'.
Dict(keys, val, explanation) == [keys |-> keys, val |-> val, explanation |-> explanation]

create_error_response(error_msg) ==
    LET keys == Append(NineFields, "overall_score")
    IN Dict(keys, [k \in {keys[i] : i \in 1..Len(keys)} |-> Num(0)], error_msg)

\* response = response.strip(); one leading fence, one trailing fence; strip.
CleanUp(response) ==
    LET a == Strip(response)
        b == IF StartsWith(a, <<FENCE, JSONTAG>>) THEN SubSeq(a, 3, Len(a))
             ELSE IF StartsWith(a, <<FENCE>>) THEN SubSeq(a, 2, Len(a))
             ELSE a
        c == IF EndsWith(b, <<FENCE>>) THEN SubSeq(b, 1, Len(b) - 1) ELSE b
    IN Strip(c)

\* not isinstance(v, (int, float)) or v < 0 or v > 10.  bool is a subclass of
\* int, and every comparison with nan is False.
BadScore(v) ==
    \/ v.t \notin {"num", "bool", "nan"}
    \/ v.t \in {"num", "bool"} /\ (v.n < 0 \/ v.n > 100)

\* The keys the validation loop rejects.
Rejected(scores) ==
    {i \in 1..Len(scores.keys) :
        /\ scores.keys[i] # "overall_score"
        /\ EndsWithScore(scores.keys[i])
        /\ BadScore(scores.val[scores.keys[i]])}

Returned(rec) == [exc |-> "", rec |-> rec]
Raised(exc) == [exc |-> exc, rec |-> Dict(<<>>, NoFields, <<>>)]

\* The sum of the numbers (in tenths) under the keys ks.
RECURSIVE SumN(_, _)
SumN(val, ks) ==
    IF ks = {} THEN 0
    ELSE LET k == CHOOSE x \in ks : TRUE IN val[k].n + SumN(val, ks \ {k})

\* The record with its overall score derived anew as the mean of its score
\* fields.
WithMeanOverall(scores, explanation) ==
    LET keys == SelectSeq(scores.keys, LAMBDA k : k # "explanation")
        fs == {k \in {keys[i] : i \in 1..Len(keys)} :
                  k # "overall_score" /\ EndsWithScore(k)}
    IN Dict(keys,
            [k \in {keys[i] : i \in 1..Len(keys)} |->
                IF k = "overall_score" /\ fs # {}
                THEN Num(SumN(scores.val, fs) \div Cardinality(fs))
                ELSE scores.val[k]],
            explanation)

\* scores['explanation'] = explanation replaces an 'explanation' member.
WithExplanation(scores, explanation) ==
    LET keys == SelectSeq(scores.keys, LAMBDA k : k # "explanation")
    IN Dict(keys, [k \in {keys[i] : i \in 1..Len(keys)} |-> scores.val[k]], explanation)

\* len(parts) != 2, for parts = response.split('{\n')
NotTwoParts(response) == Cardinality(DelimiterAt(response)) # 1

Validate(scores, explanation) ==
    LET bad == Rejected(scores)
    IN IF bad # {}
       THEN LET i == CHOOSE i \in bad : \A j \in bad : i <= j
            IN Returned(create_error_response(
                   InvalidScoreFor(scores.keys[i], scores.val[scores.keys[i]])))
       ELSE Returned(WithExplanation(scores, explanation))

prune_extract(text) ==
    LET response == CleanUp(text)
    IN IF NotTwoParts(response)
       THEN Returned(create_error_response(<<FailedToParse>> \o response))
       ELSE LET at == CHOOSE i \in DelimiterAt(response) : TRUE
                explanation == Strip(SubSeq(response, 1, at - 1))
                json_str == <<LB>> \o Strip(SubSeq(response, at + 2, Len(response)))
                scores == json_loads(json_str)
            IN IF scores.exc = "JSONDecodeError"
               THEN Returned(create_error_response(<<FailedToParseJSON>> \o response))
               ELSE IF scores.exc # "" THEN Raised(scores.exc)
               ELSE Validate(scores, explanation)

\* The record is the one create_error_response builds: every score 0 and a
\* diagnostic as explanation.
IsErrorRecord(rec) ==
    /\ rec.explanation # <<>>
    /\ rec.explanation[1] \in {FailedToParse, FailedToParseJSON, Word("Invalid score for ")}
    /\ rec = create_error_response(rec.explanation)

----------------------------------------------------------------------------
(* The raw texts the extraction step is applied to.  call_openai_api       *)
(* returns full_response.strip(), so a raw text neither starts nor ends    *)
(* with whitespace.                                                        *)

Seqs(S, n) == UNION {[1..m -> S] : m \in 0..n}

RECURSIVE Flatten(_, _)
Flatten(ss, sep) ==
    IF ss = <<>> THEN <<>>
    ELSE IF Len(ss) = 1 THEN ss[1]
    ELSE ss[1] \o sep \o Flatten(Tail(ss), sep)

BaseAlphabet == {W, NL, FENCE, JSONTAG, LB, RB, Pair("feasibility_score", Num(50))}

ShortTexts == {s \in Seqs(BaseAlphabet, MaxLen) : s = Strip(s)}

\* Members of a record: in range, out of range, not numbers, not score
\* fields, and a nested object written over several lines.
RichMembers ==
    { <<Pair("feasibility_score", Num(50))>>,
      <<Pair("feasibility_score", Num(110))>>,
      <<Pair("feasibility_score", Val("nan", 0))>>,
      <<Pair("feasibility_score", Val("bool", 10))>>,
      <<Pair("novelty_score", Val("str", 0))>>,
      <<Pair("novelty_score", Val("deep", 0))>>,
      <<Pair("overall_score", Num(80))>>,
      <<Pair("explanation", Val("str", 0))>>,
      <<Key("meta"), LB, NL, RB>> }

Leads == {<<>>, <<FENCE, NL>>, <<FENCE, JSONTAG, NL>>}
Rationales == {<<>>, <<W, NL>>, <<W, LB, NL, W, NL>>}
Trails == {<<>>, <<NL, FENCE>>, <<NL, FENCE, FENCE>>}

\* The record written one member a line, as the evaluator prompt shows it,
\* or on a single line.
Layout(members, multi) ==
    IF multi THEN <<LB, NL>> \o Flatten(members, <<NL>>) \o <<NL, RB>>
    ELSE <<LB>> \o Flatten(members, <<>>) \o <<RB>>

StructuredTexts ==
    { lead \o rationale \o Layout(members, multi) \o trail :
        lead \in Leads, rationale \in Rationales,
        members \in Seqs(RichMembers, MaxPairs), multi \in BOOLEAN, trail \in Trails }

RawTexts == ShortTexts \cup StructuredTexts

----------------------------------------------------------------------------
(* Python's None, and the values the three parts of the state hold while   *)
(* another part is exercised.                                              *)

None == <<>>
Some(x) == <<x>>

NoResult == Raised("none")

MainIdle ==
    /\ pc = "idle" /\ attempt = 0 /\ babble_response = "" /\ evaluation = None
    /\ best_response = None /\ best_evaluation = None /\ best_score = Num(0)
    /\ best_round = None /\ attempts = <<>> /\ calls = <<>>
    /\ outcome = "Idle" /\ fault = "" /\ report = None

ExtractIdle == xpc = "idle" /\ raw = <<>> /\ result = NoResult /\ again = NoResult

StreamIdle ==
    /\ spc = "idle" /\ status = 200 /\ lines = <<>> /\ idx = 0 /\ full_response = <<>>
    /\ displayed = <<>> /\ retval = <<>>

----------------------------------------------------------------------------
(* The extraction step on one raw text, and once more on the explanation   *)
(* of the error record it returned.                                        *)

ExtractInit ==
    /\ MainIdle /\ StreamIdle
    /\ xpc = "raw" /\ raw \in RawTexts /\ result = NoResult /\ again = NoResult

Extract ==
    /\ xpc = "raw"
    /\ result' = prune_extract(raw)
    /\ xpc' = "extracted"
    /\ UNCHANGED <<raw, again, mainVars, streamVars>>

ExtractAgain ==
    /\ xpc = "extracted"
    /\ result.exc = "" /\ IsErrorRecord(result.rec)
    /\ again' = prune_extract(result.rec.explanation)
    /\ xpc' = "again"
    /\ UNCHANGED <<raw, result, mainVars, streamVars>>

ExtractNext == Extract \/ ExtractAgain

SpecExtract == ExtractInit /\ [][ExtractNext]_vars

----------------------------------------------------------------------------
(* main(): the refinement loop.                                            *)

\* What babble_agent may return: call_openai_api's stripped text, which is
\* empty when the stream carried no content.
Candidates == {"", "idea"}

FullMembers(more) ==
    [i \in 1..Len(NineFields) |-> <<Pair(NineFields[i], Num(50))>>] \o more

\* What the evaluator may answer.
EvalTexts ==
    { <<W>>,                                                    \* no record at all
      <<W, NL>> \o Layout(<<<<Pair("feasibility_score", Num(50))>>,
                            <<Pair("overall_score", Num(90))>>>>, TRUE),
      <<W, NL>> \o Layout(FullMembers(<<>>), TRUE) }           \* no overall score
    \cup
    { <<W, NL>> \o Layout(FullMembers(<<<<Pair("overall_score", o)>>>>), TRUE) :
        o \in {Num(30), Num(50), Num(75), Num(80), Num(110),
               Val("nan", 0), Val("str", 0)} }

\* What the extraction step makes of each of them.  None of these texts makes
\* json.loads raise anything but json.JSONDecodeError; SpecExtract has the
\* texts that do.
EvalOutcomes == [text \in EvalTexts |-> prune_extract(text)]

\* a > b and a >= b on Python numbers; every comparison with nan is False.
PyGt(a, b) == a.t # "nan" /\ b.t # "nan" /\ a.n > b.n
PyGe(a, b) == a.t # "nan" /\ b.t # "nan" /\ a.n >= b.n

HasKey(rec, k) == \E i \in 1..Len(rec.keys) : rec.keys[i] = k

\* Every value is taken to be printable with .1f.
AnyFormattable(v) == TRUE

\* f"{x:.1f}" works for int, float and bool only.
Formattable(v) == v.t \in {"num", "bool", "nan"}

MainInit ==
    /\ pc = "babble" /\ attempt = 0 /\ babble_response = "" /\ evaluation = None
    /\ best_response = None /\ best_evaluation = None /\ best_score = Num(0)
    /\ best_round = None /\ attempts = <<>> /\ calls = <<>>
    /\ outcome = "Running" /\ fault = "" /\ report = None

\* original_prompt = args.prompt, read once before the loop.
original_prompt == "prompt"

\* The calls main() makes, as the log keeps them: the agent, the round, and
\* the arguments.
BabbleCall(round) ==
    [fn |-> "babble_agent", round |-> round, candidate |-> "", prompt |-> original_prompt]

\* The evaluator is handed the best candidate so far once there is one.
PruneCallBest(round, candidate) ==
    [fn |-> "prune_agent", round |-> round,
     candidate |-> IF best_response = <<>> THEN candidate ELSE best_response[1],
     prompt |-> original_prompt]

PruneCall(round, candidate) ==
    [fn |-> "prune_agent", round |-> round, candidate |-> candidate,
     prompt |-> original_prompt]

\* The failed round is started over instead of the exception leaving main().
RetryRound(exc) == pc' = "babble" /\ outcome' = outcome /\ fault' = exc

\* An exception nothing in main() catches: the run ends where it is raised.
Abort(exc) == pc' = "raised" /\ outcome' = "Aborted" /\ fault' = exc

\* babble_response = babble_agent(original_prompt): one transport call, which
\* raises on a status other than 200.
Babble ==
    /\ pc = "babble"
    /\ calls' = Append(calls, BabbleCall(attempt))
    /\ \/ /\ \E text \in Candidates : babble_response' = text
          /\ pc' = "prune"
          /\ UNCHANGED <<outcome, fault>>
       \/ /\ Abort("TransportError")
          /\ UNCHANGED babble_response
    /\ UNCHANGED <<attempt, evaluation, best_response, best_evaluation, best_score,
                   best_round, attempts, report, extractVars, streamVars>>

\* evaluation = prune_agent(babble_response, original_prompt): one transport
\* call, then the extraction step on the text it returned (raw).
Prune ==
    /\ pc = "prune"
    /\ calls' = Append(calls, PruneCall(attempt, babble_response))
    /\ \/ /\ \E text \in EvalTexts :
                /\ raw' = text
                /\ evaluation' = Some(EvalOutcomes[text].rec)
          /\ pc' = "print"
          /\ UNCHANGED <<outcome, fault>>
       \/ /\ Abort("TransportError")
          /\ UNCHANGED <<evaluation, raw>>
    /\ UNCHANGED <<attempt, babble_response, best_response, best_evaluation, best_score,
                   best_round, attempts, report, xpc, result, again, streamVars>>

\* Lines 175-188: the explanation, the nine scores by name, and the overall
\* score formatted with .1f.
PrintScores ==
    /\ pc = "print"
    /\ LET ev == evaluation[1]
       IN IF \E i \in 1..Len(NineFields) : ~HasKey(ev, NineFields[i])
          THEN Abort("KeyError")
          ELSE IF ~HasKey(ev, "overall_score") THEN Abort("KeyError")
          ELSE IF ~Formattable(ev.val["overall_score"]) THEN Abort("FormatError")
          ELSE pc' = "update" /\ UNCHANGED <<outcome, fault>>
    /\ UNCHANGED <<attempt, babble_response, evaluation, best_response, best_evaluation,
                   best_score, best_round, attempts, calls, report, extractVars,
                   streamVars>>

\* The comparison with >= in place of >: a later tie replaces the best.
BeatsOrTies(score, best) == PyGe(score, best)

\* No comparison at all: the latest round is always taken as the best.
LatestBeats(score, best) == TRUE

\* if evaluation['overall_score'] > best_score
Beats(score, best) == PyGt(score, best)

\* if evaluation['overall_score'] >= target_score
MeetsTarget(score) == PyGe(score, Num(target_score))

\* The update with best_response assigned outside the if: the candidate of
\* every round becomes the best response, whatever it scored.
UpdateResponseAlways ==
    /\ pc = "update"
    /\ attempts' = Append(attempts, [candidate |-> babble_response,
                                      evaluation |-> evaluation[1]])
    /\ best_response' = Some(babble_response)
    /\ IF PyGt(evaluation[1].val["overall_score"], best_score)
       THEN /\ best_score' = evaluation[1].val["overall_score"]
            /\ best_evaluation' = evaluation
            /\ best_round' = Some(attempt)
       ELSE UNCHANGED <<best_score, best_evaluation, best_round>>
    /\ IF PyGe(evaluation[1].val["overall_score"], Num(target_score))
       THEN pc' = "final" /\ outcome' = "Succeeded" /\ UNCHANGED attempt
       ELSE IF attempt + 1 < max_attempts
            THEN pc' = "babble" /\ attempt' = attempt + 1 /\ UNCHANGED outcome
            ELSE pc' = "final" /\ outcome' = "Exhausted" /\ UNCHANGED attempt
    /\ UNCHANGED <<babble_response, evaluation, calls, fault, report,
                   extractVars, streamVars>>

\* Lines 190-199 and the step of for attempt in range(max_attempts): the
\* best-so-far update, then the stop decision.  attempts and best_round record
\* the round for the claims: the attempt of this round, and the round the
\* best attempt came from.
UpdateAndCheck ==
    /\ pc = "update"
    /\ attempts' = Append(attempts, [candidate |-> babble_response,
                                      evaluation |-> evaluation[1]])
    /\ IF Beats(evaluation[1].val["overall_score"], best_score)
       THEN /\ best_score' = evaluation[1].val["overall_score"]
            /\ best_response' = Some(babble_response)
            /\ best_evaluation' = evaluation
            /\ best_round' = Some(attempt)
       ELSE UNCHANGED <<best_score, best_response, best_evaluation, best_round>>
    /\ IF MeetsTarget(evaluation[1].val["overall_score"])
       THEN pc' = "final" /\ outcome' = "Succeeded" /\ UNCHANGED attempt
       ELSE IF attempt + 1 < max_attempts
            THEN pc' = "babble" /\ attempt' = attempt + 1 /\ UNCHANGED outcome
            ELSE pc' = "final" /\ outcome' = "Exhausted" /\ UNCHANGED attempt
    /\ UNCHANGED <<babble_response, evaluation, calls, fault, report,
                   extractVars, streamVars>>

\* if best_response and best_evaluation: an empty string is falsy, a dict
\* with an 'explanation' key is not.
Truthy(response) == response # None /\ response[1] # ""

\* Lines 201-208: report holds the idea and the evaluation printed as the
\* best, None when "No valid ideas were generated" is printed.
FinalResults ==
    /\ pc = "final"
    /\ report' = IF Truthy(best_response) /\ best_evaluation # None
                 THEN Some([candidate |-> best_response[1],
                            evaluation |-> best_evaluation[1]])
                 ELSE None
    /\ pc' = "done"
    /\ UNCHANGED <<attempt, babble_response, evaluation, best_response, best_evaluation,
                   best_score, best_round, attempts, calls, outcome, fault,
                   extractVars, streamVars>>

Next == Babble \/ Prune \/ PrintScores \/ UpdateAndCheck \/ FinalResults

Init == MainInit /\ ExtractIdle /\ StreamIdle

Spec == Init /\ [][Next]_vars

----------------------------------------------------------------------------
(* call_openai_api: the status check and the loop over                     *)
(* response.iter_lines().                                                  *)

\* One line of the response: kind says which branch of the loop body it
\* takes, content is choices[0].delta.content of a content frame.
Line(kind) == [kind |-> kind, content |-> <<>>]
ContentLine(text) == [kind |-> "content", content |-> text]

Contents == {<<W>>, <<NL>>, <<LB>>}

Lines ==
    { Line("empty"),          \* a keep-alive: if line is False
      Line("comment"),        \* does not start with 'data: '
      Line("done"),           \* data: [DONE]
      Line("badjson"),        \* json.JSONDecodeError
      Line("nochoice"),       \* choices is empty
      Line("nodelta"),        \* no delta, or a delta without content
      Line("nullcontent"),    \* content is null: TypeError on +=
      Line("nochoiceskey"),   \* valid JSON without choices: KeyError
      Line("undecodable") }   \* not UTF-8: UnicodeDecodeError
    \cup {ContentLine(text) : text \in Contents}

StreamInit ==
    /\ MainIdle /\ ExtractIdle
    /\ spc = "post"
    /\ \/ status = 200 /\ lines \in Seqs(Lines, MaxLines)
       \/ status = 500 /\ lines = <<>>      \* an error body, no stream
    /\ idx = 0 /\ full_response = <<>> /\ displayed = <<>> /\ retval = <<>>

\* Lines 36-40.
Post ==
    /\ spc = "post"
    /\ spc' = IF status # 200 THEN "raised" ELSE "loop"
    /\ UNCHANGED <<status, lines, idx, full_response, displayed, retval,
                   mainVars, extractVars>>

\* A line the loop body passes over: lines 42, 45, 51, 53 and 57-58.
Skipped(line) == line.kind \in {"empty", "comment", "badjson", "nochoice", "nodelta"}

SkipLine ==
    /\ spc = "loop" /\ idx < Len(lines)
    /\ Skipped(lines[idx + 1])
    /\ idx' = idx + 1
    /\ UNCHANGED <<spc, status, lines, full_response, displayed, retval,
                   mainVars, extractVars>>

\* The concatenation with the fragment put in front.
AccumulateInFront(sofar, content) == content \o sofar

\* full_response += content
Accumulate(sofar, content) == sofar \o content

\* Lines 54-56: print(content, end=''), then the concatenation.
TakeContent ==
    /\ spc = "loop" /\ idx < Len(lines)
    /\ lines[idx + 1].kind = "content"
    /\ idx' = idx + 1
    /\ displayed' = displayed \o lines[idx + 1].content
    /\ full_response' = Accumulate(full_response, lines[idx + 1].content)
    /\ UNCHANGED <<spc, status, lines, retval, mainVars, extractVars>>

\* if line == '[DONE]': break
IsDone(line) == line.kind = "done"

\* Lines 47-48, or the end of iter_lines().
LeaveLoop ==
    /\ spc = "loop"
    /\ \/ idx < Len(lines) /\ IsDone(lines[idx + 1]) /\ idx' = idx + 1
       \/ idx = Len(lines) /\ UNCHANGED idx
    /\ spc' = "after"
    /\ UNCHANGED <<status, lines, full_response, displayed, retval,
                   mainVars, extractVars>>

\* An exception other than json.JSONDecodeError leaves the function: line 44
\* (decode), line 51 (no 'choices'), line 56 (None cannot be concatenated,
\* after print has shown it).
LineRaises ==
    /\ spc = "loop" /\ idx < Len(lines)
    /\ lines[idx + 1].kind \in {"undecodable", "nochoiceskey", "nullcontent"}
    /\ idx' = idx + 1
    /\ displayed' = IF lines[idx + 1].kind = "nullcontent"
                    THEN Append(displayed, Word("None")) ELSE displayed
    /\ spc' = "raised"
    /\ UNCHANGED <<status, lines, full_response, retval, mainVars, extractVars>>

\* return full_response.strip()
Return ==
    /\ spc = "after"
    /\ retval' = Strip(full_response)
    /\ spc' = "returned"
    /\ UNCHANGED <<status, lines, idx, full_response, displayed, mainVars, extractVars>>

StreamNext == Post \/ SkipLine \/ TakeContent \/ LeaveLoop \/ LineRaises \/ Return

SpecStream == StreamInit /\ [][StreamNext]_vars

----------------------------------------------------------------------------
(* Claims about the extraction step (under SpecExtract).                   *)

\* A score as the rubric defines it: a number within [0,10].
InRange(v) == v.t = "num" /\ v.n >= 0 /\ v.n <= 100

ScoreFieldsOf(rec) ==
    {rec.keys[i] : i \in {j \in 1..Len(rec.keys) :
        rec.keys[j] # "overall_score" /\ EndsWithScore(rec.keys[j])}}

\* C5: the extraction step is total: for every raw text it raises nothing and
\* returns either a record that passed validation or the error record of
\* create_error_response (every score 0, the diagnostic as explanation).
C5_ExtractionTotal ==
    xpc = "extracted" =>
        /\ result.exc = ""
        /\ \/ IsErrorRecord(result.rec)
           \/ Rejected(result.rec) = {}

\* C6: extraction never returns a record other than the error record in which
\* a score field (other than the overall score) holds a value that is not a
\* number or lies outside [0,10].
C6_NoInvalidScoreReturned ==
    (xpc = "extracted" /\ result.exc = "" /\ ~IsErrorRecord(result.rec)) =>
        \A k \in ScoreFieldsOf(result.rec) : InRange(result.rec.val[k])

\* The text with one optional leading fence (with or without a language tag)
\* and one optional trailing fence removed.
Unfenced(text) == CleanUp(text)

\* The first opening brace that begins a line, 0 when there is none.
FirstLineInitialBrace(t) ==
    LET at == {i \in 1..Len(t) : t[i].c = "lb" /\ (i = 1 \/ t[i - 1].c = "nl")}
    IN IF at = {} THEN 0 ELSE CHOOSE i \in at : \A j \in at : i <= j

\* C7: for a text made of a rationale followed by a well-formed record whose
\* score fields all lie in [0,10], wherever the first line-initial opening
\* brace is and whatever further braces the rationale or the record holds,
\* extraction returns a record that is not the error record, whose fields are
\* the embedded values and whose explanation is the rationale.
C7_ValidTextExtracted ==
    LET t == Unfenced(raw)
        at == FirstLineInitialBrace(t)
        embedded == json_loads(SubSeq(t, at, Len(t)))
        expected == WithExplanation(embedded, Strip(SubSeq(t, 1, at - 1)))
    IN (/\ xpc = "extracted"
        /\ at # 0
        /\ embedded.exc = ""
        /\ \A k \in ScoreFieldsOf(expected) : InRange(expected.val[k]))
       => result = Returned(expected)

\* C8: for a text without any opening brace, extraction returns the error
\* record whose explanation is "Failed to parse evaluation. Raw response: "
\* followed by the raw text.
C8_NoDelimiterEchoesRaw ==
    (xpc = "extracted" /\ \A i \in 1..Len(raw) : raw[i].c # "lb") =>
        result = Returned(create_error_response(<<FailedToParse>> \o raw))

\* C9: extraction applied to the explanation of an error record it returned
\* raises nothing and returns an error record again.
C9_FailureIdempotent ==
    xpc = "again" => again.exc = "" /\ IsErrorRecord(again.rec)

----------------------------------------------------------------------------
(* Claims about the refinement loop (under Spec).                          *)

Overall(a) == a.evaluation.val["overall_score"]

\* The evaluation carries an overall score that reaches target_score.
ReachesTarget(ev) ==
    /\ HasKey(ev, "overall_score")
    /\ ev.val["overall_score"].t \in {"num", "bool"}
    /\ ev.val["overall_score"].n >= target_score

Ended == pc \in {"final", "done", "raised"}

\* The completed rounds whose overall score is above 0.
Positive == {i \in 1..Len(attempts) : PyGt(Overall(attempts[i]), Num(0))}

C2_SucceededIffTargetMet ==
    /\ Ended => (outcome = "Succeeded" <=> (evaluation # None /\ ReachesTarget(evaluation[1])))
    /\ ~Ended => (evaluation = None \/ pc = "print" \/ ~ReachesTarget(evaluation[1]))
    /\ outcome = "Succeeded" =>
          /\ Len(calls) = 2 * (attempt + 1)
          /\ \A i \in 1..attempt : ~MeetsTarget(Overall(attempts[i]))

\* C3: with every transport call returning, the loop ends after at most
\* max_attempts rounds, and it ends exhausted exactly when round
\* max_attempts - 1 was run and did not reach the target, that is, when all
\* max_attempts rounds scored below it.
C3_ExhaustedIffLastRoundMissed ==
    /\ attempt < max_attempts /\ Len(calls) <= 2 * max_attempts
    /\ (Ended /\ fault # "TransportError") =>
          (outcome = "Exhausted" <=>
              /\ attempt = max_attempts - 1
              /\ Len(calls) = 2 * max_attempts
              /\ ~(evaluation # None /\ ReachesTarget(evaluation[1])))
    /\ outcome = "Exhausted" =>
          /\ Len(attempts) = max_attempts
          /\ \A i \in 1..Len(attempts) : ~MeetsTarget(Overall(attempts[i]))

\* C4: whatever text the evaluator returns, the round completes without a
\* raised fault: only a transport failure ends the run early.
C4_NoContentFault ==
    pc = "raised" => fault = "TransportError"

----------------------------------------------------------------------------
(* Claims about call_openai_api (under SpecStream).                        *)

\* The lines in front of the first end marker; all of them without one.
RECURSIVE BeforeMarker(_)
BeforeMarker(ls) ==
    IF ls = <<>> \/ Head(ls).kind = "done" THEN <<>>
    ELSE <<Head(ls)>> \o BeforeMarker(Tail(ls))

\* The content of the content frames, in order, nothing in between.
RECURSIVE ContentOf(_)
ContentOf(ls) ==
    IF ls = <<>> THEN <<>>
    ELSE (IF Head(ls).kind = "content" THEN Head(ls).content ELSE <<>>) \o ContentOf(Tail(ls))

HasMarker == \E i \in 1..Len(lines) : lines[i].kind = "done"

\* C10: the value returned is the content of the fragments that arrived in
\* front of the end marker, concatenated in arrival order and trimmed; what is
\* displayed is that concatenation; no line behind the marker is consumed;
\* and the call returns when every frame in front of the marker is a content
\* frame or one the loop passes over.
C10_ReturnsContentBeforeMarker ==
    /\ spc = "returned" =>
          /\ retval = Strip(ContentOf(BeforeMarker(lines)))
          /\ displayed = ContentOf(BeforeMarker(lines))
    /\ idx <= Len(BeforeMarker(lines)) + (IF HasMarker THEN 1 ELSE 0)
    /\ spc = "raised" =>
          \/ status # 200
          \/ \E i \in 1..Len(BeforeMarker(lines)) :
                lines[i].kind \in {"undecodable", "nochoiceskey", "nullcontent"}

\* A stream of two fragments, the end marker, and a fragment behind it: the
\* call has returned the two, trimmed, without the last.
C10_Witness ==
    /\ spc = "returned"
    /\ lines = <<ContentLine(<<LB>>), ContentLine(<<NL>>), Line("done"), ContentLine(<<W>>)>>
    /\ retval = <<LB>>
    /\ idx = 3

\* C11: with a successful status, a malformed fragment is passed over without
\* a sign of it: the call raises nothing, consumes the lines up to the end
\* marker, and what it has accumulated is the content of the well-formed
\* fragments in front of and behind the malformed ones.
C11_MalformedSkipped ==
    status = 200 =>
        /\ spc # "raised"
        /\ spc \in {"after", "returned"} =>
              /\ full_response = ContentOf(BeforeMarker(lines))
              /\ idx = Len(BeforeMarker(lines)) + (IF HasMarker THEN 1 ELSE 0)

----------------------------------------------------------------------------
(* Further claims about the refinement loop (under Spec).                  *)

\* C12: when a transport call reports a status other than success in round k,
\* the call yields nothing (the candidate, the evaluation and the best attempt
\* stay as they were), it is not tried again, and the failure leaves the
\* controller: the failing call is the last call of the run, round k is not
\* completed, no later round runs and no best-of-run result is reported.
C12_TransportFailureEndsRun ==
    /\ [](fault = "TransportError" =>
            /\ pc = "raised" /\ outcome = "Aborted" /\ report = None
            /\ calls[Len(calls)].round = attempt
            /\ Len(calls) = 2 * attempt + (IF calls[Len(calls)].fn = "babble_agent" THEN 1 ELSE 2)
            /\ Len(attempts) = attempt)
    /\ [][(fault' = "TransportError" /\ fault = "") =>
            UNCHANGED <<attempt, babble_response, evaluation, best_response,
                        best_evaluation, best_score, best_round, attempts, report>>]_vars
    /\ [][fault = "TransportError" => UNCHANGED mainVars]_vars

\* The evaluator's call failed in the third round, after a round had set a
\* best attempt: the run is over with nothing reported.
C12_Witness ==
    /\ fault = "TransportError" /\ pc = "raised"
    /\ attempt = 2 /\ calls[Len(calls)].fn = "prune_agent"
    /\ best_round # None /\ report = None

\* C13: at the end of a completed run, "no valid ideas" is the terminal output
\* only if no round scored above 0; whenever a round did, the terminal output
\* is the best attempt, whatever its candidate text, the empty one included.
C13_NoValidIdeasOnlyWhenNonePositive ==
    pc = "done" =>
        /\ report = None => Positive = {}
        /\ Positive # {} =>
              report = Some([candidate |-> best_response[1],
                             evaluation |-> best_evaluation[1]])

\* C14 as stated: every evaluation record stored in an attempt has an overall
\* score equal to the arithmetic mean of the numeric score fields it holds.
C14_OverallIsMean ==
    \A i \in 1..Len(attempts) :
        LET ev == attempts[i].evaluation
            fs == {k \in ScoreFieldsOf(ev) : ev.val[k].t = "num"}
        IN Overall(attempts[i]).n * Cardinality(fs) = SumN(ev.val, fs)

\* The overall score of ev is the one the text reports (its last overall_score
\* member), or 0 when ev is the error record.
StoredAsReported(ev, text) ==
    IF IsErrorRecord(ev) THEN ev.val["overall_score"] = Num(0)
    ELSE LET at == {i \in 1..Len(text) : text[i].c = "pair" /\ text[i].k = "overall_score"}
         IN /\ at # {}
            /\ LET last == CHOOSE i \in at : \A j \in at : j <= i
               IN ev.val["overall_score"] = Val(text[last].t, text[last].n)

\* C14 as amended: the evaluation record stored in an attempt is the round's
\* record as extraction returned it, its overall score is the overall_score
\* value the evaluator's text reports (0 in an error record), not a mean
\* derived from the score fields, and a stored record is never altered.
C14_OverallAsReported ==
    [][attempts' # attempts =>
          /\ attempts' = Append(attempts, [candidate |-> babble_response,
                                           evaluation |-> evaluation[1]])
          /\ StoredAsReported(evaluation[1], raw)]_vars

\* An attempt is stored whose nine score fields are 5.0 each and whose
\* overall score is the reported 3.0.
C14_Witness ==
    /\ attempts # <<>>
    /\ LET ev == attempts[Len(attempts)].evaluation
       IN /\ \A i \in 1..Len(NineFields) : ev.val[NineFields[i]] = Num(50)
          /\ ev.val["overall_score"] = Num(30)
    /\ StoredAsReported(attempts[Len(attempts)].evaluation, raw)

\* The candidate round k (from 0) produced.
CandidateOf(k) == IF k < Len(attempts) THEN attempts[k + 1].candidate ELSE babble_response

\* The log holds, round after round, one call of the generator with the task
\* prompt and then one call of the evaluator with that round's candidate and
\* the same prompt; a round is stored only after both.
CallLogInOrder ==
    /\ \A i \in 1..Len(calls) :
          IF i % 2 = 1
          THEN calls[i] = [fn |-> "babble_agent", round |-> (i - 1) \div 2,
                           candidate |-> "", prompt |-> original_prompt]
          ELSE calls[i] = [fn |-> "prune_agent", round |-> (i \div 2) - 1,
                           candidate |-> CandidateOf((i \div 2) - 1),
                           prompt |-> original_prompt]
    /\ (pc = "babble") => (Len(calls) = 2 * attempt /\ Len(attempts) = attempt)
    /\ (pc = "prune") => (Len(calls) = 2 * attempt + 1 /\ Len(attempts) = attempt)
    /\ (pc \in {"print", "update"}) =>
          (Len(calls) = 2 * attempt + 2 /\ Len(attempts) = attempt)
    /\ (pc \in {"final", "done"}) =>
          (Len(calls) = 2 * attempt + 2 /\ Len(attempts) = attempt + 1)

\* A step that stores the round, updates the best attempt or takes the stop
\* decision.
Decides ==
    \/ <<best_response, best_evaluation, best_score>>' #
           <<best_response, best_evaluation, best_score>>
    \/ attempts' # attempts
    \/ (outcome' # outcome /\ outcome' \in {"Succeeded", "Exhausted"})

\* C15: every round calls the generator once with the task prompt, then the
\* evaluator once with the candidate of that round and the same prompt, and
\* only after both are the best attempt updated and the stop decision taken;
\* the prompt is the same in every call of every round.
C15_CallsInOrder ==
    /\ []CallLogInOrder
    /\ [][Decides =>
            (/\ pc = "update" /\ calls' = calls
             /\ Len(calls) = 2 * attempt + 2
             /\ calls[Len(calls) - 1].round = attempt
             /\ calls[Len(calls)].round = attempt
             /\ calls[Len(calls)].candidate = babble_response)]_vars

\* Five rounds have run: ten calls, the candidates of the first two rounds
\* differ, and each went to the evaluator in its own round.
C15_Witness ==
    /\ pc = "done" /\ outcome = "Exhausted" /\ Len(calls) = 2 * max_attempts
    /\ attempts[1].candidate = "idea" /\ attempts[2].candidate = ""
    /\ calls[2].candidate = "idea" /\ calls[4].candidate = ""
    /\ best_round = Some(0)

\* C16: whenever the loop ends succeeded in round r, the attempt tracked and
\* reported as best is the attempt of round r, and its overall score is at
\* least target_score; a round 0 that meets target_score ends the loop there.
C16_SucceededReportsThatRound ==
    outcome = "Succeeded" =>
        /\ Len(attempts) = attempt + 1
        /\ MeetsTarget(Overall(attempts[attempt + 1]))
        /\ best_round = Some(attempt)
        /\ best_response = Some(attempts[attempt + 1].candidate)
        /\ best_evaluation = Some(attempts[attempt + 1].evaluation)
        /\ pc = "done" => report = Some(attempts[attempt + 1])

\* C17: an attempt whose evaluation is the error record (overall score 0) is
\* never the best attempt; whenever a best attempt is set, best_score is above
\* 0; and best_score never decreases from one step to the next.
C17_BestPositiveNeverDecreases ==
    /\ [](\A i \in 1..Len(attempts) :
              IsErrorRecord(attempts[i].evaluation) =>
                  /\ best_round # Some(i - 1)
                  /\ best_evaluation # Some(attempts[i].evaluation))
    /\ []((best_round # None \/ best_response # None \/ best_evaluation # None) =>
              PyGt(best_score, Num(0)))
    /\ [][PyGe(best_score', best_score)]_vars

\* Round 0 returned the error record, round 1 scored 5.0 and became the best
\* attempt, round 2 returned the error record again and round 3 scored 3.0:
\* the best attempt is still that of round 1.
C17_Witness ==
    /\ Len(attempts) = 4
    /\ IsErrorRecord(attempts[1].evaluation)
    /\ Overall(attempts[2]) = Num(50)
    /\ IsErrorRecord(attempts[3].evaluation)
    /\ Overall(attempts[4]) = Num(30)
    /\ best_round = Some(1) /\ best_score = Num(50)

\* The three variables of the best attempt.
bestVars == <<best_response, best_evaluation, best_score>>

\* C18: best_response, best_evaluation and best_score are either all as
\* initialised (None, None, 0) or all those of one and the same round: the
\* candidate of that round, its evaluation, and that evaluation's overall
\* score; and a step other than the update of a round that scored strictly
\* above best_score leaves all three as they are.
C18_BestIsOneRound ==
    /\ [](\/ bestVars = <<None, None, Num(0)>> /\ best_round = None
          \/ \E r \in 1..Len(attempts) :
                /\ best_round = Some(r - 1)
                /\ best_response = Some(attempts[r].candidate)
                /\ best_evaluation = Some(attempts[r].evaluation)
                /\ best_score = best_evaluation[1].val["overall_score"])
    /\ [][~(pc = "update" /\ PyGt(evaluation[1].val["overall_score"], best_score))
            => bestVars' = bestVars]_vars

\* Round 1 with the candidate "idea" became the best attempt, and round 2
\* with another candidate tied with it: the three are still those of round 1.
C18_Witness ==
    /\ Len(attempts) = 3 /\ best_round = Some(1)
    /\ attempts[2].candidate = "idea" /\ attempts[3].candidate = ""
    /\ Overall(attempts[3]) = Overall(attempts[2])
    /\ bestVars = <<Some("idea"), Some(attempts[2].evaluation), Overall(attempts[2])>>

\* The overall score of the round, once the round has got as far as the
\* comparisons of lines 190 and 195.
Compared == evaluation[1].val["overall_score"]

\* C19 as stated: the overall score compared with best_score and with
\* target_score is a number within [0,10], so the loop succeeds only on an
\* overall score within [7.5,10].
C19_ComparedInRange ==
    /\ pc = "update" => InRange(Compared)
    /\ outcome = "Succeeded" => (InRange(Compared) /\ Compared.n >= target_score)

\* C19 as amended: the overall score compared with best_score and with
\* target_score is the value the evaluator's text reports (0 in an error
\* record); it is a Python number (int, float, bool or nan) that no check
\* confines to [0,10], and the loop succeeds only on one that is at least
\* target_score, above 10 included.
C19_ComparedAsReported ==
    /\ pc = "update" =>
          /\ Compared.t \in {"num", "bool", "nan"}
          /\ StoredAsReported(evaluation[1], raw)
    /\ outcome = "Succeeded" =>
          /\ Compared.t \in {"num", "bool"}
          /\ Compared.n >= target_score
          /\ StoredAsReported(evaluation[1], raw)

\* The evaluator reported an overall score of 11.0 and the loop succeeded
\* on it.
C19_Witness ==
    /\ outcome = "Succeeded" /\ pc = "done"
    /\ Compared = Num(110) /\ best_score = Num(110)
    /\ report # None

====
